---------------------------- MODULE Spec2Model ----------------------------
(***************************************************************************)
(* Model of synthaser/results.py: grouping of overlapping conserved-domain *)
(* hits, choice of a representative per group, merging of fragmented       *)
(* adjacent hits (filter_domains) and the per-query driver filter_results. *)
(*                                                                         *)
(* Domain objects live in `heap` (object id = index), so that a list of    *)
(* Domains is a sequence of ids and two lists can share an object, as      *)
(* Python lists do.  Floats are kept exact: an e-value is an integer rank, *)
(* a percentage is a fraction <<num, den>>, a sort key is a fraction and   *)
(* every comparison is done by cross-multiplication.                       *)
(***************************************************************************)
EXTENDS Integers, Sequences, FiniteSets, TLC

VARIABLES
    DOMAINS,        \* results.DOMAINS: domain key -> [type, length, bitscore]
    heap,           \* the Domain objects, by object id
    heap0,          \* the Domain objects as they were constructed
    results,        \* argument of filter_results: <<[name, hits]>> in dict order
    by,             \* kwarg `by`
    coverage_pct,   \* kwarg `coverage_pct`, a fraction <<num, den>>
    tolerance_pct,  \* kwarg `tolerance_pct`, a fraction <<num, den>>
    groups,         \* lists yielded by group_overlapping_hits
    domains,        \* the list `domains` of filter_domains
    filtered,       \* the dict `filtered` of filter_results, as <<[name, hits]>>
    pos,            \* number of items of `results` already iterated
    calls,          \* number of completed passes of the merge loop
    pc,             \* control state
    err             \* exception raised, "none" when there is none

vars == <<DOMAINS, heap, heap0, results, by, coverage_pct, tolerance_pct,
          groups, domains, filtered, pos, calls, pc, err>>

---------------------------------------------------------------------------
(* Bounds of the model *)

MaxGroupHits == 3
MaxClusterHits == 3
MaxMergeHits == 4
MaxQueryHits == 3
MaxCoord == 4
MaxCalls == 2

---------------------------------------------------------------------------
(* Sequences and fractions *)

Min(a, b) == IF a < b THEN a ELSE b

Max(a, b) == IF a < b THEN b ELSE a

Reverse(s) == [k \in 1..Len(s) |-> s[Len(s) + 1 - k]]

Range(s) == {s[k] : k \in 1..Len(s)}

\* Python s[lo:hi] for 0 <= lo <= hi (0-based, end exclusive, clipped to len(s))
PySlice(s, lo, hi) == SubSeq(s, lo + 1, Min(hi, Len(s)))

\* Python `del s[i]` for 0 <= i < len(s)
PyDel(s, i) == SubSeq(s, 1, i) \o SubSeq(s, i + 2, Len(s))

\* k1 < k2 for fractions with positive denominators
KeyLess(k1, k2) == k1[1] * k2[2] < k2[1] * k1[2]

\* insert x after every element of the sorted list t whose key is <= key[x]
InsertSorted(t, x, key) ==
    LET later == {j \in 1..Len(t) : KeyLess(key[x], key[t[j]])}
        p == IF later = {} THEN Len(t) + 1
             ELSE CHOOSE j \in later : \A m \in later : j <= m
    IN  SubSeq(t, 1, p - 1) \o <<x>> \o SubSeq(t, p, Len(t))

RECURSIVE StableSort(_, _)
\* ascending stable sort of a list of ids by key[id]
StableSort(s, key) ==
    IF s = <<>> THEN <<>>
    ELSE InsertSorted(StableSort(SubSeq(s, 1, Len(s) - 1), key), s[Len(s)], key)

\* list.sort(reverse=True) reverses, sorts ascending and stable, reverses again
SortedReverseNoPreReverse(s, key, reverse) ==
    IF reverse THEN Reverse(StableSort(s, key)) ELSE StableSort(s, key)

\* Python sorted(s, key=key, reverse=reverse)
Sorted(s, key, reverse) ==
    IF reverse THEN Reverse(StableSort(Reverse(s), key)) ELSE StableSort(s, key)

---------------------------------------------------------------------------
(* The registry and the Domain objects *)

\* contents of DOMAINS after load_domain_json: two keys of different types
Registry ==
    [A |-> [type |-> "C",  length |-> 36, bitscore |-> 2],
     X |-> [type |-> "KS", length |-> 20, bitscore |-> 1]]

\* domain_from_row: the Domain built from a row; its type comes from DOMAINS
Domain(reg, domain, start, end, evalue, bitscore) ==
    [domain |-> domain, type |-> reg[domain].type, start |-> start,
     end |-> end, evalue |-> evalue, bitscore |-> bitscore]

\* Domain.__len__
DomainLen(d) == d.end - d.start


---------------------------------------------------------------------------
(* group_overlapping_hits *)

\* the test that a domain overlaps the current run without the 10bp slack
OverlapsNoSlack(h, d, border) == h[d].start <= border

\* the test that a domain overlaps the current run with < in place of <=
OverlapsStrict(h, d, border) == h[d].start + 10 < border

\* line 310: the domain overlaps the current run
Overlaps(h, d, border) == h[d].start + 10 <= border

\* line 312: the new upper bound of the current run
NewBorder(h, d, border) == Max(border, h[d].end)

RECURSIVE GroupLoop(_, _, _, _, _)
\* lines 306-320: the for loop over the remaining sorted domains and the
\* final yield; `out` is the list of groups yielded so far
GroupLoop(h, rest, group, border, out) ==
    IF rest = <<>> THEN out \o <<group>>
    ELSE LET domain == Head(rest)
         IN  IF Overlaps(h, domain, border)
             THEN GroupLoop(h, Tail(rest), Append(group, domain),
                            NewBorder(h, domain, border), out)
             ELSE GroupLoop(h, Tail(rest), <<domain>>, h[domain].end,
                            out \o <<group>>)

\* the first group initialised without popping it off the sorted list
group_overlapping_hits_nopop(h, ds) ==
    LET sorted_domains == Sorted(ds, [d \in Range(ds) |-> <<h[d].start, 1>>], FALSE)
    IN  IF sorted_domains = <<>> THEN <<>>
        ELSE LET first == Head(sorted_domains)
             IN  GroupLoop(h, sorted_domains, <<first>>, h[first].end, <<>>)

\* group_overlapping_hits(domains): the groups it yields, in order
group_overlapping_hits(h, ds) ==
    LET sorted_domains == Sorted(ds, [d \in Range(ds) |-> <<h[d].start, 1>>], FALSE)
    IN  IF sorted_domains = <<>> THEN <<>>
        ELSE LET first == Head(sorted_domains)
             IN  GroupLoop(h, Tail(sorted_domains), <<first>>, h[first].end, <<>>)

---------------------------------------------------------------------------
(* choose_representative_domain *)

Metrics == {"bitscore", "evalue", "length"}

\* key_functions[by][0] applied to every domain of the group
KeyFunction(reg, h, group, metric) ==
    [d \in Range(group) |->
        CASE metric = "bitscore" -> <<h[d].bitscore, reg[h[d].domain].bitscore>>
          [] metric = "evalue"   -> <<h[d].evalue, 1>>
          [] metric = "length"   -> <<h[d].end - h[d].start, 1>>]

\* key_functions[by][1]
KeyReverse(metric) == metric \in {"bitscore", "length"}

\* choose_representative_domain(group, by): the exception raised, or the
\* chosen domain
choose_representative_domain(reg, h, group, metric) ==
    IF metric \notin Metrics
    THEN [exc |-> "ValueError_metric", value |-> 0]
    ELSE IF metric = "bitscore" /\ \E d \in Range(group) : h[d].domain \notin DOMAIN reg
    THEN [exc |-> "KeyError", value |-> 0]
    ELSE [exc |-> "none",
          value |-> Sorted(group, KeyFunction(reg, h, group, metric),
                           KeyReverse(metric))[1]]

---------------------------------------------------------------------------
(* is_fragmented_domain *)

\* is_fragmented_domain(one, two, coverage_pct, tolerance_pct) on two Domain
\* records: the exception raised, or the truth value returned
is_fragmented_domain(reg, one, two, cov, tol) ==
    IF one.type # two.type
    THEN [exc |-> "ValueError_type", value |-> FALSE]
    ELSE IF one.domain \notin DOMAIN reg
    THEN [exc |-> "KeyError", value |-> FALSE]
    ELSE LET pssm_length == reg[one.domain].length
             one_length == DomainLen(one)
             two_length == DomainLen(two)
             span == two.end - one.start
         IN  [exc |-> "none",
              value |->
                 \* one_length < coverage
                 /\ one_length * cov[2] < pssm_length * cov[1]
                 \* two_length < coverage
                 /\ two_length * cov[2] < pssm_length * cov[1]
                 \* pssm_length - tolerance <= two.end - one.start
                 /\ pssm_length * tol[2] - pssm_length * tol[1] <= span * tol[2]
                 \* two.end - one.start <= pssm_length + tolerance
                 /\ span * tol[2] <= pssm_length * tol[2] + pssm_length * tol[1]
                 \* one_length + two_length > coverage
                 /\ (one_length + two_length) * cov[2] > pssm_length * cov[1]]


---------------------------------------------------------------------------
(* filter_domains *)

Result(exc, h, ds) == [exc |-> exc, heap |-> h, domains |-> ds]

RECURSIVE MergeLoopAdvance(_, _, _, _, _, _, _)
\* the while loop with the index advanced after a merge as well
MergeLoopAdvance(reg, h, ds, i, total, cov, tol) ==
    IF ~(i < total) \/ i + 1 = total THEN Result("none", h, ds)
    ELSE LET pair == PySlice(ds, i - 1, i + 1)
         IN  IF Len(pair) # 2 THEN Result("ValueError_unpack", h, ds)
             ELSE LET previous == pair[1]
                      current == pair[2]
                      frag == is_fragmented_domain(reg, h[previous], h[current],
                                                   cov, tol)
                  IN  IF h[previous].type # h[current].type
                      THEN MergeLoopAdvance(reg, h, ds, i + 1, total, cov, tol)
                      ELSE IF frag.exc # "none" THEN Result(frag.exc, h, ds)
                      ELSE IF frag.value
                      THEN MergeLoopAdvance(reg,
                                     [h EXCEPT ![previous].end = h[current].end],
                                     PyDel(ds, i), i + 1, total, cov, tol)
                      ELSE MergeLoopAdvance(reg, h, ds, i + 1, total, cov, tol)

RECURSIVE MergeLoop(_, _, _, _, _, _, _)
\* lines 234-248: the while loop from the state (domains, i, total) on, and
\* the return; the exception raised, the heap and the list at the end
MergeLoop(reg, h, ds, i, total, cov, tol) ==
    IF ~(i < total) \/ i + 1 = total THEN Result("none", h, ds)
    ELSE LET pair == PySlice(ds, i - 1, i + 1)
         IN  \* previous, current = domains[i - 1 : i + 1]
             IF Len(pair) # 2 THEN Result("ValueError_unpack", h, ds)
             ELSE LET previous == pair[1]
                      current == pair[2]
                      frag == is_fragmented_domain(reg, h[previous], h[current],
                                                   cov, tol)
                  IN  IF h[previous].type # h[current].type
                      THEN MergeLoop(reg, h, ds, i + 1, total, cov, tol)
                      ELSE IF frag.exc # "none" THEN Result(frag.exc, h, ds)
                      ELSE IF frag.value
                      THEN \* previous.end = current.end; del domains[i]; continue
                           MergeLoop(reg,
                                     [h EXCEPT ![previous].end = h[current].end],
                                     PyDel(ds, i), i, total, cov, tol)
                      ELSE MergeLoop(reg, h, ds, i + 1, total, cov, tol)

\* lines 233-248: i, total = 1, len(domains) and the loop
Merge(reg, h, ds, cov, tol) == MergeLoop(reg, h, ds, 1, Len(ds), cov, tol)

\* filter_domains(domains, by, coverage_pct, tolerance_pct): the exception
\* raised, the heap at the end, the list returned and the groups seen
filter_domains(reg, h, ds, metric, cov, tol) ==
    LET gs == group_overlapping_hits(h, ds)
        chosen == [k \in 1..Len(gs) |->
                     choose_representative_domain(reg, h, gs[k], metric)]
        failed == {k \in 1..Len(gs) : chosen[k].exc # "none"}
    IN  IF failed # {}
        THEN LET k == CHOOSE j \in failed : \A m \in failed : j <= m
             IN  [exc |-> chosen[k].exc, heap |-> h, domains |-> ds,
                  groups |-> SubSeq(gs, 1, k)]
        ELSE LET r == Merge(reg, h, [k \in 1..Len(gs) |-> chosen[k].value],
                            cov, tol)
             IN  [exc |-> r.exc, heap |-> r.heap, domains |-> r.domains,
                  groups |-> gs]

\* filtered[name] = domains on the dict `filtered`, kept in insertion order
DictSet(d, name, value) ==
    IF \E k \in 1..Len(d) : d[k].name = name
    THEN [k \in 1..Len(d) |->
            IF d[k].name = name THEN [name |-> name, hits |-> value] ELSE d[k]]
    ELSE Append(d, [name |-> name, hits |-> value])


---------------------------------------------------------------------------
(* Inputs *)

Ids(n) == [k \in 1..n |-> k]

\* the kwargs of filter_domains: the defaults (0.5, 0.1), and a pair with
\* coverage_pct + tolerance_pct > 1, which lets a merged hit merge again
Kwargs == {<< <<1, 2>>, <<1, 10>> >>, << <<3, 4>>, <<1, 2>> >>}

\* hits of SpecGroup: every start <= end on a grid of 5
GroupPool ==
    {Domain(Registry, "A", 5 * c[1], 5 * c[2], 1, 1) :
        c \in {c \in (0..MaxCoord) \X (0..MaxCoord) : c[1] <= c[2]}}

\* hits of SpecSelect: one start, so that they all overlap
ClusterPool ==
    {Domain(Registry, d, 0, l, e, b) :
        d \in {"A", "X"}, l \in {10, 15}, e \in {1, 2}, b \in {1, 2}}

\* hits of Spec: the shorter hit has the better e-value, so that the metrics
\* choose different representatives
QueryPool ==
    {Domain(Registry, "A", s, s + le[1], le[2], 1) :
        s \in {0, 10, 20, 30}, le \in {<<10, 1>>, <<15, 2>>}}

\* start of the k-th hit of a sequence whose consecutive starts differ by gaps
RECURSIVE StartAt(_, _)
StartAt(gaps, k) == IF k = 1 THEN 0 ELSE StartAt(gaps, k - 1) + gaps[k - 1]

\* the items of `results` made of the hits 1..n: no query, one query, or two
\* queries that split the hits
Shapes(n) ==
    {<<>>, <<[name |-> "q1", hits |-> Ids(n)]>>} \cup
    {<<[name |-> "q1", hits |-> SubSeq(Ids(n), 1, k)],
       [name |-> "q2", hits |-> SubSeq(Ids(n), k + 1, n)]>> : k \in 0..n}

InitCommon ==
    /\ DOMAINS = Registry
    /\ heap0 = heap
    /\ filtered = <<>>
    /\ pos = 0
    /\ calls = 0
    /\ err = "none"

---------------------------------------------------------------------------
(* filter_results on a parsed results dictionary *)

Init ==
    /\ \E n \in 0..MaxQueryHits : \E f \in [1..n -> QueryPool] :
          /\ heap = f
          /\ results \in Shapes(n)
          /\ n > 0 => results # <<>>
    /\ by \in Metrics \cup {"score"}
    /\ \E kw \in Kwargs : coverage_pct = kw[1] /\ tolerance_pct = kw[2]
    /\ groups = <<>>
    /\ domains = <<>>
    /\ pc = "filter_results"
    /\ InitCommon

\* lines 164-168: one iteration of the for loop, filter_domains included
filter_results_iter ==
    /\ pc = "filter_results"
    /\ pos < Len(results)
    /\ \E item \in {results[pos + 1]} :
       \E r \in {filter_domains(DOMAINS, heap, item.hits, by,
                                coverage_pct, tolerance_pct)} :
           /\ heap' = r.heap
           /\ groups' = r.groups
           /\ domains' = r.domains
           /\ err' = r.exc
           /\ IF r.exc # "none"
              THEN /\ pc' = "raised"
                   /\ UNCHANGED <<filtered, pos>>
              ELSE /\ filtered' = DictSet(filtered, item.name, r.domains)
                   /\ pos' = pos + 1
                   /\ pc' = pc
    /\ UNCHANGED <<DOMAINS, heap0, results, by, coverage_pct, tolerance_pct, calls>>

\* line 169: return filtered
filter_results_return ==
    /\ pc = "filter_results"
    /\ pos = Len(results)
    /\ pc' = "returned"
    /\ UNCHANGED <<DOMAINS, heap, heap0, results, by, coverage_pct,
                   tolerance_pct, groups, domains, filtered, pos, calls, err>>

Next == filter_results_iter \/ filter_results_return

Spec == Init /\ [][Next]_vars

---------------------------------------------------------------------------
(* group_overlapping_hits on a list of hits *)

InitGroup ==
    /\ \E n \in 0..MaxGroupHits : \E f \in [1..n -> GroupPool] :
          /\ heap = f
          /\ domains = Ids(n)
    /\ results = <<>>
    /\ by = "evalue"
    /\ coverage_pct = <<1, 2>>
    /\ tolerance_pct = <<1, 10>>
    /\ groups = <<>>
    /\ pc = "group"
    /\ InitCommon

\* list(group_overlapping_hits(domains))
GroupCall ==
    /\ pc = "group"
    /\ groups' = group_overlapping_hits(heap, domains)
    /\ pc' = "grouped"
    /\ UNCHANGED <<DOMAINS, heap, heap0, results, by, coverage_pct,
                   tolerance_pct, domains, filtered, pos, calls, err>>

NextGroup == GroupCall

SpecGroup == InitGroup /\ [][NextGroup]_vars

---------------------------------------------------------------------------
(* choose_representative_domain on one group *)

InitSelect ==
    /\ \E n \in 1..MaxClusterHits : \E f \in [1..n -> ClusterPool] :
          /\ heap = f
          /\ groups = <<Ids(n)>>
    /\ results = <<>>
    /\ by \in Metrics \cup {"score"}
    /\ coverage_pct = <<1, 2>>
    /\ tolerance_pct = <<1, 10>>
    /\ domains = <<>>
    /\ pc = "select"
    /\ InitCommon

\* [choose_representative_domain(group, by)] for the one group
SelectCall ==
    /\ pc = "select"
    /\ LET r == choose_representative_domain(DOMAINS, heap, groups[1], by)
       IN  /\ err' = r.exc
           /\ IF r.exc # "none"
              THEN pc' = "raised" /\ domains' = domains
              ELSE pc' = "selected" /\ domains' = <<r.value>>
    /\ UNCHANGED <<DOMAINS, heap, heap0, results, by, coverage_pct,
                   tolerance_pct, groups, filtered, pos, calls>>

NextSelect == SelectCall

SpecSelect == InitSelect /\ [][NextSelect]_vars

---------------------------------------------------------------------------
(* the merge loop of filter_domains on a list of representatives, applied
   again to the list it returns *)

InitMerge ==
    /\ \E n \in 0..MaxMergeHits :
       \E f \in [1..n -> {"A", "X"} \X {10, 15}] :
       \E gaps \in [1..(n - 1) -> {5, 10, 20}] :
          /\ heap = [k \in 1..n |->
                       Domain(Registry, f[k][1], StartAt(gaps, k),
                              StartAt(gaps, k) + f[k][2], 1, 1)]
          /\ domains = Ids(n)
    \* one hit per group, in the order of the groups
    /\ group_overlapping_hits(heap, domains) = [k \in 1..Len(domains) |-> <<k>>]
    /\ groups = [k \in 1..Len(domains) |-> <<k>>]
    /\ results = <<>>
    /\ by = "evalue"
    /\ \E kw \in Kwargs : coverage_pct = kw[1] /\ tolerance_pct = kw[2]
    /\ pc = "merge"
    /\ InitCommon

\* lines 233-248 on the current list
MergeCall ==
    /\ pc = "merge"
    /\ calls < MaxCalls
    /\ LET r == Merge(DOMAINS, heap, domains, coverage_pct, tolerance_pct)
       IN  /\ heap' = r.heap
           /\ domains' = r.domains
           /\ err' = r.exc
           /\ pc' = IF r.exc # "none" THEN "raised" ELSE "merge"
    /\ calls' = calls + 1
    /\ UNCHANGED <<DOMAINS, heap0, results, by, coverage_pct, tolerance_pct,
                   groups, filtered, pos>>

NextMerge == MergeCall

SpecMerge == InitMerge /\ [][NextMerge]_vars


---------------------------------------------------------------------------
(* Claims on group_overlapping_hits, under SpecGroup *)

\* the places <<k, j>> of the groups that hold the hit id
PlacesOf(id) ==
    {p \in (1..Len(groups)) \X (1..Len(heap)) :
        p[2] <= Len(groups[p[1]]) /\ groups[p[1]][p[2]] = id}

\* C5: the groups yielded for any list of hits (empty, equal starts and
\* duplicate coordinates included) are non-empty and partition the list:
\* every input hit is in exactly one place of one group, no group holds
\* anything else, and an empty list yields no group.
C5_GroupsPartitionInput ==
    pc = "grouped" =>
        /\ \A k \in 1..Len(groups) : groups[k] # <<>>
        /\ \A id \in Range(domains) : Cardinality(PlacesOf(id)) = 1
        /\ \A k \in 1..Len(groups) : Range(groups[k]) \subseteq Range(domains)
        /\ domains = <<>> => groups = <<>>

\* C5 witness: three hits, two of them with the same coordinates, grouped
\* into a group of two and a group of one.
C5_Witness ==
    /\ pc = "grouped"
    /\ Len(domains) = 3
    /\ Len(groups) = 2
    /\ \E i, j \in 1..Len(heap) : i # j /\ heap[i] = heap[j]

\* C6 as stated: any two hits x before y of one group overlap each other
\* under the 10-unit rule, y.start + 10 <= x.end.
C6_MutuallyOverlapping ==
    pc = "grouped" =>
        \A k \in 1..Len(groups) : \A i, j \in 1..Len(groups[k]) :
            i < j => heap[groups[k][j]].start + 10 <= heap[groups[k][i]].end

\* C6 amended: every hit y of a group other than its first overlaps, under
\* the 10-unit rule, some hit x before it in the group (the one that set the
\* running border): y.start + 10 <= x.end.
C6_OverlapsAnEarlierHit ==
    pc = "grouped" =>
        \A k \in 1..Len(groups) : \A j \in 2..Len(groups[k]) :
            \E i \in 1..(j - 1) :
                heap[groups[k][j]].start + 10 <= heap[groups[k][i]].end

\* C6 witness: a group of three whose third hit joined through the border
\* set by the first and does not overlap the second.
C6_Witness ==
    /\ pc = "grouped"
    /\ \E k \in 1..Len(groups) :
          /\ Len(groups[k]) = 3
          /\ heap[groups[k][3]].start + 10 > heap[groups[k][2]].end
          /\ heap[groups[k][3]].start + 10 <= heap[groups[k][1]].end

---------------------------------------------------------------------------
(* Claims on choose_representative_domain, under SpecSelect *)

\* hit a is strictly better than hit b under the metric
Better(a, b) ==
    CASE by = "evalue" -> a.evalue < b.evalue
      [] by = "bitscore" ->
            a.bitscore * DOMAINS[b.domain].bitscore
                > b.bitscore * DOMAINS[a.domain].bitscore
      [] by = "length" -> a.end - a.start > b.end - b.start
      [] OTHER -> FALSE

\* C8: for a non-empty group and a supported metric the hit returned is a
\* member of the group, no member is strictly better under the metric, and
\* every member that ties with it comes after it in the group's order.
C8_BestAndFirstAmongTies ==
    (pc = "selected" /\ by \in Metrics) =>
        \E p \in 1..Len(groups[1]) :
            /\ domains = <<groups[1][p]>>
            /\ \A j \in 1..Len(groups[1]) :
                  ~Better(heap[groups[1][j]], heap[groups[1][p]])
            /\ \A j \in 1..(p - 1) :
                  Better(heap[groups[1][p]], heap[groups[1][j]])

\* C8 witness: under the descending bitscore metric the second hit is
\* returned, it beats the first and ties with the third, a hit of another
\* domain key.
C8_Witness ==
    /\ pc = "selected"
    /\ by = "bitscore"
    /\ Len(groups[1]) = 3
    /\ domains = <<2>>
    /\ heap[2].domain # heap[3].domain
    /\ ~Better(heap[2], heap[3])
    /\ ~Better(heap[3], heap[2])


---------------------------------------------------------------------------
(* Claims on the merge loop, under SpecMerge.  The hits of the input list
   are the objects 1..Len(heap0), in this order. *)

\* is_fragmented_domain on two records of the same type
IsFragmented(a, b) ==
    /\ a.type = b.type
    /\ is_fragmented_domain(DOMAINS, a, b, coverage_pct, tolerance_pct).value

\* C1 as stated: merging a representative sequence of exactly two hits a, b
\* with isFragmented(a, b) yields exactly one hit, from a.start to b.end.
C1_FragmentedPairMerged ==
    (calls = 1 /\ Len(heap0) = 2 /\ IsFragmented(heap0[1], heap0[2])) =>
        /\ err = "none"
        /\ Len(domains) = 1
        /\ heap[domains[1]].start = heap0[1].start
        /\ heap[domains[1]].end = heap0[2].end

\* C9 as stated: for a representative sequence f1, f2, f3 with
\* isFragmented(f1, f2) and, once f1.end is f2.end, isFragmented(f1, f3),
\* merge returns a single hit from f1.start to f3.end.
C9_TransitiveMerge ==
    (/\ calls = 1
     /\ Len(heap0) = 3
     /\ IsFragmented(heap0[1], heap0[2])
     /\ IsFragmented([heap0[1] EXCEPT !.end = heap0[2].end], heap0[3])) =>
        /\ err = "none"
        /\ Len(domains) = 1
        /\ heap[domains[1]].start = heap0[1].start
        /\ heap[domains[1]].end = heap0[3].end

\* C3 as stated: the merge applied to the list a first merge returned
\* returns it unchanged: same hits, same starts and ends.
C3_MergeIdempotent ==
    [][(pc = "merge" /\ calls = 1 /\ calls' = 2) =>
            (err' = "none" /\ domains' = domains /\ heap' = heap)]_vars

\* the first pass changed the end of no hit other than the first of its list
OnlyFirstHitExtended ==
    \A k \in 2..Len(domains) : heap[domains[k]].end = heap0[domains[k]].end

\* C3 amended: the merge applied to the list a first merge returned returns
\* it unchanged, provided the first merge changed the end of no hit other
\* than the first hit of the sequence.
C3_MergeIdempotentWhenOnlyFirstExtended ==
    [][(pc = "merge" /\ calls = 1 /\ calls' = 2 /\ OnlyFirstHitExtended) =>
            (err' = "none" /\ domains' = domains /\ heap' = heap)]_vars

\* C3 witness: a second merge has returned after a first one that merged a
\* fragment into the first hit and left at least two hits.
C3_Witness ==
    /\ calls = 2
    /\ err = "none"
    /\ OnlyFirstHitExtended
    /\ Len(domains) >= 2
    /\ Len(domains) < Len(heap0)
    /\ heap[domains[1]].end # heap0[domains[1]].end

---------------------------------------------------------------------------
(* Claims on filter_results, under Spec *)

\* C2 as stated: for hits whose keys all resolve and a supported metric the
\* filtering of a query returns; it raises nothing.
C2_SupportedMetricReturns ==
    (by \in Metrics /\ \A id \in DOMAIN heap : heap[id].domain \in DOMAIN DOMAINS)
        => err = "none"

\* C4 as stated: for every result set, the empty one and those with queries
\* of zero hits included, filter_results with an unsupported metric ends by
\* raising the ValueError of the metric and returns no mapping.
C4_UnsupportedMetricFails ==
    (by \notin Metrics /\ pc # "filter_results") =>
        (pc = "raised" /\ err = "ValueError_metric")

\* C7: every list filter_results has stored is a well-formed track: for two
\* consecutive hits p, n: p.start <= n.start and n.start + 10 > p.end.
C7_OutputIsTrack ==
    \A q \in 1..Len(filtered) : \A j \in 1..(Len(filtered[q].hits) - 1) :
        LET p == heap[filtered[q].hits[j]]
            n == heap[filtered[q].hits[j + 1]]
        IN  p.start <= n.start /\ n.start + 10 > p.end

\* C7 witness: a stored list of two hits, the first with its end extended
\* by a merge, for a query whose hits were not given in start order.
C7_Witness ==
    \E q \in 1..Len(filtered) :
        /\ Len(filtered[q].hits) = 2
        /\ heap[filtered[q].hits[1]].end # heap0[filtered[q].hits[1]].end
        /\ \E i, j \in Range(results[q].hits) :
              i < j /\ heap0[j].start < heap0[i].start

\* C10 as stated: once filter_results has returned or raised, every hit of
\* its input has the start, end and type it had before, and DOMAINS is as
\* it was.
C10_InputUnchanged ==
    pc \in {"returned", "raised"} =>
        /\ \A id \in DOMAIN heap :
              /\ heap[id].start = heap0[id].start
              /\ heap[id].end = heap0[id].end
              /\ heap[id].type = heap0[id].type
        /\ DOMAINS = Registry

=============================================================================
